---------------------------- MODULE Spec2Model ----------------------------
(***************************************************************************)
(* The line-oriented SDL scanner of GraphQLSchemaViewer.tsx (the useMemo   *)
(* block): two operation passes (Query, Mutation) and one type-definition  *)
(* pass over schema.split('\n').  Text is a sequence of one-character      *)
(* strings, so that trim, startsWith, includes, the regular expressions    *)
(* and join are computed on characters as the code computes them.  One     *)
(* action is one iteration of a for loop (or the entry / return of a       *)
(* pass); the passes run in the order the code calls them.                 *)
(***************************************************************************)
EXTENDS Integers, Sequences, FiniteSets, TLC

\* ------------------------------------------------------------------ bounds
\* Longest input, in lines.
MaxLines == 4
\* How often the memoized block is computed for one schema.
MaxRuns == 2
\* How many clicks on the endpoint boxes are followed.
MaxClicks == 2

\* ------------------------------------------------------- JavaScript values
\* undefined where a text can stand (a description that is absent).
Undefined == <<"<undefined>">>
\* a schema prop that is not text (typeof schema !== 'string').
NotText == <<"<number>">>
\* currentType = null
Null == [null |-> TRUE]
\* undefined where a list of records can stand (an absent parameter list).
UndefinedList == <<Null>>
\* null where a string can stand (copiedEndpoint, an operation name).
NullText == "<null>"

\* ------------------------------------------------------------ text helpers
Min(S) == CHOOSE m \in S : \A n \in S : m <= n
Max(S) == CHOOSE m \in S : \A n \in S : m >= n

\* \s of the regular expressions and the characters String.trim removes.
IsWs(c) == c \in {" ", "\t"}

\* \w of the regular expressions.
IsWord(c) ==
    c \in {"a","b","c","d","e","f","g","h","i","j","k","l","m","n","o","p","q",
           "r","s","t","u","v","w","x","y","z","A","B","C","D","E","F","G","H",
           "I","J","K","L","M","N","O","P","Q","R","S","T","U","V","W","X","Y",
           "Z","0","1","2","3","4","5","6","7","8","9","_"}

\* String.prototype.trim
trim(s) ==
    LET idx == {k \in 1..Len(s) : ~IsWs(s[k])}
    IN  IF idx = {} THEN <<>> ELSE SubSeq(s, Min(idx), Max(idx))

\* String.prototype.includes, for a one-character needle
includes(s, c) == \E k \in 1..Len(s) : s[k] = c

\* String.prototype.startsWith / endsWith
startsWith(s, p) == Len(s) >= Len(p) /\ SubSeq(s, 1, Len(p)) = p
endsWith(s, p) == Len(s) >= Len(p) /\ SubSeq(s, Len(s) - Len(p) + 1, Len(s)) = p

\* Array.prototype.join
RECURSIVE join(_, _)
join(parts, sep) ==
    IF parts = <<>> THEN <<>>
    ELSE IF Len(parts) = 1 THEN parts[1]
    ELSE parts[1] \o sep \o join(Tail(parts), sep)

\* String.prototype.split('\n'): the pieces between one line break (or the
\* start) and the next (or the end)
split(s) ==
    LET nl == {k \in 1..Len(s) : s[k] = "\n"}
        breakAt(j) ==
            IF j = 0 THEN 0
            ELSE IF j > Cardinality(nl) THEN Len(s) + 1
            ELSE CHOOSE k \in nl : Cardinality({m \in nl : m <= k}) = j
    IN  [j \in 1..(Cardinality(nl) + 1) |->
            SubSeq(s, breakAt(j - 1) + 1, breakAt(j) - 1)]

\* s.replace(/[...]/g, '') for a character class
RemoveChars(s, class) == SelectSeq(s, LAMBDA c : c \notin class)

\* first index >= p of s that is not whitespace (Len(s)+1 when there is none):
\* where a greedy \s* started at p ends
SkipWs(s, p) ==
    LET rest == {k \in p..Len(s) : ~IsWs(s[k])}
    IN  IF rest = {} THEN Len(s) + 1 ELSE Min(rest)

\* first index >= p of s that is not a word character: where a greedy \w*
\* started at p ends
WordEnd(s, p) ==
    LET rest == {k \in p..Len(s) : ~IsWord(s[k])}
    IN  IF rest = {} THEN Len(s) + 1 ELSE Min(rest)

\* .replace(/^("""|#)/, '').replace(/"""$/, '').trim()  (lines 90 and 191)
descTextOf(trimmed) ==
    LET a == IF startsWith(trimmed, <<"\"","\"","\"">>) THEN SubSeq(trimmed, 4, Len(trimmed))
             ELSE IF startsWith(trimmed, <<"#">>) THEN Tail(trimmed)
             ELSE trimmed
        b == IF endsWith(a, <<"\"","\"","\"">>) THEN SubSeq(a, 1, Len(a) - 3) ELSE a
    IN  trim(b)

\* trimmed.startsWith('"""') || trimmed.startsWith('#')  (lines 85 and 190)
isDescriptionLineOf(trimmed) ==
    startsWith(trimmed, <<"\"","\"","\"">>) \/ startsWith(trimmed, <<"#">>)

\* trimmed.endsWith('"""') && trimmed.startsWith('"""') && trimmed.length > 3
closesTripleQuote(trimmed) ==
    /\ endsWith(trimmed, <<"\"","\"","\"">>)
    /\ startsWith(trimmed, <<"\"","\"","\"">>)
    /\ Len(trimmed) > 3

\* the change of braceCount a line makes: line.includes('{') adds one,
\* line.includes('}') takes one away, however many braces the line holds
braceDelta(line) ==
    (IF includes(line, "{") THEN 1 ELSE 0) - (IF includes(line, "}") THEN 1 ELSE 0)

\* ------------------------------------------------- the regular expressions
\* returnType.replace(/\s*\{.*$/, ''): cut at the whitespace run that leads
\* to the first '{'
StripBraceTail(s) ==
    LET br == {k \in 1..Len(s) : s[k] = "{"}
    IN  IF br = {} THEN s
        ELSE LET k == Min(br)
                 ws == {p \in 1..k : \A j \in p..(k - 1) : IsWs(s[j])}
             IN  SubSeq(s, 1, Min(ws) - 1)

\* trimmed.match(/^\s*(\w+)\s*(\([^)]*\))?\s*:\s*(.+?)(\s*\{|\s*$)/)
\* [ok, name (group 1), params (group 2 || ''), ret (group 3)]
fieldMatchOf(trimmed) ==
    LET n == Len(trimmed)
        p0 == SkipWs(trimmed, 1)
        p1 == WordEnd(trimmed, p0)
        p2 == SkipWs(trimmed, p1)
        closers == {k \in (p2 + 1)..n : trimmed[k] = ")"}
        hasParams == p2 <= n /\ trimmed[p2] = "(" /\ closers # {}
        p3 == IF hasParams THEN Min(closers) + 1 ELSE p2
        p4 == SkipWs(trimmed, p3)
        q == SkipWs(trimmed, p4 + 1)
        \* the lazy .+? starts at g and ends at the first e from which
        \* \s*\{ or \s*$ matches
        g == IF q <= n THEN q ELSE n
        tailOk(e) == LET r == SkipWs(trimmed, e + 1) IN r > n \/ trimmed[r] = "{"
        e == Min({k \in g..n : tailOk(k)})
    IN  IF p1 > p0 /\ p4 <= n /\ trimmed[p4] = ":" /\ p4 < n
        THEN [ok |-> TRUE,
              name |-> SubSeq(trimmed, p0, p1 - 1),
              params |-> IF hasParams THEN SubSeq(trimmed, p2, p3 - 1) ELSE <<>>,
              ret |-> SubSeq(trimmed, g, e)]
        ELSE [ok |-> FALSE, name |-> <<>>, params |-> <<>>, ret |-> <<>>]

requiredOfTrailingMark(paramType) == endsWith(trim(paramType), <<"!">>)

\* line 124: required
requiredOf(paramType) == includes(paramType, "!")

\* line 127: the stored type
storedTypeOf(paramType) == trim(RemoveChars(paramType, {"!"}))

\* Array.from(paramsContent.matchAll(/(\w+)\s*:\s*([^,]+)/g)) from index from
\* on, each match as the pushed {name, type, required}  (lines 120-130)
RECURSIVE paramMatchesFrom(_, _)
paramMatchesFrom(s, from) ==
    LET n == Len(s)
        starts == {k \in from..n : IsWord(s[k])}
    IN  IF starts = {} THEN <<>>
        ELSE LET a == Min(starts)
                 b == WordEnd(s, a)
                 c == SkipWs(s, b)
                 q == SkipWs(s, c + 1)
                 commas == {k \in q..n : s[k] = ","}
                 stop == IF commas = {} THEN n + 1 ELSE Min(commas)
                 \* [^,]+ needs one character: when \s* ran up to a comma
                 \* or the end it gives its last blank back
                 first == IF q <= n /\ s[q] # "," THEN q
                          ELSE IF q - 1 > c THEN q - 1 ELSE 0
                 last == IF first = q THEN stop - 1 ELSE q - 1
                 paramType == trim(SubSeq(s, first, last))
             IN  IF c <= n /\ s[c] = ":" /\ first > 0
                 THEN <<[name |-> SubSeq(s, a, b - 1),
                         type |-> storedTypeOf(paramType),
                         required |-> requiredOf(paramType)]>>
                      \o paramMatchesFrom(s, last + 1)
                 ELSE paramMatchesFrom(s, b)

\* lines 117-131: the parameters array of a field
parametersOf(paramsString) ==
    IF paramsString = <<>> THEN <<>>
    ELSE paramMatchesFrom(RemoveChars(paramsString, {"(", ")"}), 1)

\* the six definition keywords, each with its trailing blank, in the order
\* of the startsWith tests of lines 196-197
Keywords ==
    << [kind |-> "type",      text |-> <<"t","y","p","e"," ">>],
       [kind |-> "interface", text |-> <<"i","n","t","e","r","f","a","c","e"," ">>],
       [kind |-> "enum",      text |-> <<"e","n","u","m"," ">>],
       [kind |-> "scalar",    text |-> <<"s","c","a","l","a","r"," ">>],
       [kind |-> "union",     text |-> <<"u","n","i","o","n"," ">>],
       [kind |-> "input",     text |-> <<"i","n","p","u","t"," ">>] >>

\* lines 196-197: the line starts with a definition keyword and a blank
startsWithKeyword(trimmed) ==
    \E k \in 1..Len(Keywords) : startsWith(trimmed, Keywords[k].text)

\* trimmed.match(/^(type|interface|enum|scalar|union|input)\s+(\w+)/)
\* [ok, kind (group 1), name (group 2)]
headerMatchOf(trimmed) ==
    LET hits == {k \in 1..Len(Keywords) :
                    startsWith(trimmed, SubSeq(Keywords[k].text, 1, Len(Keywords[k].text) - 1))}
    IN  IF hits = {} THEN [ok |-> FALSE, kind |-> "", name |-> <<>>]
        ELSE LET kw == Keywords[Min(hits)]
                 p == Len(kw.text)
                 a == SkipWs(trimmed, p)
                 b == WordEnd(trimmed, a)
             IN  IF a > p /\ b > a
                 THEN [ok |-> TRUE, kind |-> kw.kind, name |-> SubSeq(trimmed, a, b - 1)]
                 ELSE [ok |-> FALSE, kind |-> "", name |-> <<>>]

\* a reserved-name test that forgets Subscription
isReservedNameNever(typeName) == FALSE

isReservedNameWithoutSubscription(typeName) ==
    \/ typeName = <<"Q","u","e","r","y">>
    \/ typeName = <<"M","u","t","a","t","i","o","n">>

\* line 202: typeName === 'Query' || typeName === 'Mutation' || typeName === 'Subscription'
isReservedName(typeName) ==
    \/ typeName = <<"Q","u","e","r","y">>
    \/ typeName = <<"M","u","t","a","t","i","o","n">>
    \/ typeName = <<"S","u","b","s","c","r","i","p","t","i","o","n">>

\* line 70: the header test of parseOperationsFromType
isRootHeader(trimmed, typeName) ==
    LET h == <<"t","y","p","e"," ">> \o typeName
    IN  \/ trimmed = h
        \/ startsWith(trimmed, h \o <<" ">>)
        \/ startsWith(trimmed, h \o <<"{">>)

\* ------------------------------------------------------------- the inputs
\* The source lines the inputs are made of, as characters.
\* type Query {
Ln_QueryOpen == <<"t","y","p","e"," ","Q","u","e","r","y"," ","{">>
\* type Query { foo: Bar }
Ln_QueryOneLine == <<"t","y","p","e"," ","Q","u","e","r","y"," ","{"," ","f","o","o",":"," ","B","a","r"," ","}">>
\* type Mutation {
Ln_MutationOpen == <<"t","y","p","e"," ","M","u","t","a","t","i","o","n"," ","{">>
\* type Subscription {
Ln_SubscriptionOpen == <<"t","y","p","e"," ","S","u","b","s","c","r","i","p","t","i","o","n"," ","{">>
\*   foo: Bar
Ln_FieldFoo == <<" "," ","f","o","o",":"," ","B","a","r">>
\*   widget(id: ID!): Widget
Ln_FieldWidget == <<" "," ","w","i","d","g","e","t","(","i","d",":"," ","I","D","!",")",":"," ","W","i","d","g","e","t">>
\* type Subscription { ping: Boolean }
Ln_SubscriptionOneLine == <<"t","y","p","e"," ","S","u","b","s","c","r","i","p","t","i","o","n"," ","{"," ","p","i","n","g",":"," ","B","o","o","l","e","a","n"," ","}">>
\*   all(n: Int, f: [ID!]): [Bar!]!
Ln_FieldList == <<" "," ","a","l","l","(","n",":"," ","I","n","t",","," ","f",":"," ","[","I","D","!","]",")",":"," ","[","B","a","r","!","]","!">>
\*   f(): T
Ln_FieldNoArgs == <<" "," ","f","(",")",":"," ","T">>
\* }
Ln_Close == <<"}">>
\* (the empty line)
Ln_Blank == <<>>
\* # d
Ln_Comment == <<"#"," ","d">>
\* """x"""
Ln_Doc == <<"\"","\"","\"","x","\"","\"","\"">>
\* junk
Ln_Junk == <<"j","u","n","k">>
\* type A {
Ln_TypeOpen == <<"t","y","p","e"," ","A"," ","{">>
\*   g: {
Ln_BraceOpen == <<" "," ","g",":"," ","{">>
\* }}
Ln_CloseTwo == <<"}","}">>
\* input b: B
Ln_InputLine == <<"i","n","p","u","t"," ","b",":"," ","B">>
\* enum Color { RED GREEN BLUE }
Ln_Enum == <<"e","n","u","m"," ","C","o","l","o","r"," ","{"," ","R","E","D"," ","G","R","E","E","N"," ","B","L","U","E"," ","}">>
\* scalar Date
Ln_Scalar == <<"s","c","a","l","a","r"," ","D","a","t","e">>

\* Line alphabets: every input is a sequence of at most MaxLines lines of one
\* alphabet.
\*   descriptions inside a root block
LinesOpsDesc ==
    {Ln_QueryOpen, Ln_FieldFoo, Ln_Close, Ln_Blank, Ln_Comment, Ln_Doc, Ln_Junk}
\*   root blocks of both kinds, the one-line form, a Subscription block
LinesOpsRoots ==
    {Ln_QueryOpen, Ln_QueryOneLine, Ln_MutationOpen, Ln_SubscriptionOpen,
     Ln_FieldFoo, Ln_FieldWidget, Ln_Close}
\*   type definitions: braced, one-line, scalar, described, with blank lines
LinesTypes ==
    {Ln_TypeOpen, Ln_FieldFoo, Ln_Close, Ln_Blank, Ln_Comment, Ln_Enum, Ln_Scalar}
\*   type definitions: several braces on a line, keyword lines, a root header
LinesTypesBraces ==
    {Ln_TypeOpen, Ln_BraceOpen, Ln_CloseTwo, Ln_Close, Ln_FieldFoo, Ln_InputLine,
     Ln_QueryOpen}

\*   fields with and without arguments, list and non-null types
LinesOpsFields ==
    {Ln_QueryOpen, Ln_FieldWidget, Ln_FieldList, Ln_FieldNoArgs, Ln_FieldFoo, Ln_Close}

Alphabets == {LinesOpsDesc, LinesOpsRoots, LinesTypes, LinesTypesBraces, LinesOpsFields}

\*   a described field of a root block next to a described type
LinesDescribed ==
    {Ln_QueryOpen, Ln_Comment, Ln_FieldFoo, Ln_TypeOpen, Ln_Blank, Ln_SubscriptionOneLine}

\* A smaller alphabet for inputs of one more line: a root block that holds
\* description lines, an unrelated line and a field.
LinesOpsLong == {Ln_QueryOpen, Ln_Doc, Ln_Junk, Ln_Comment, Ln_FieldFoo}

SeqsUpTo(S, n) == UNION {[1..k -> S] : k \in 0..n}

\* The values of the schema prop: texts of at most MaxLines lines (one more
\* over the smaller alphabet), and the two values that are not a text.
Schemas ==
    {join(ls, <<"\n">>) :
        ls \in UNION {SeqsUpTo(A, MaxLines) : A \in Alphabets}
                  \cup SeqsUpTo(LinesOpsLong, MaxLines + 1)}
        \cup {Undefined, NotText}

\* What the passes compute from one source line alone, computed once for
\* every line of the alphabets.  trimmed is line.trim() (lines 58 and 185).
lineFacts(line) ==
    LET trimmed == trim(line)
    IN  [trimmed |-> trimmed,
         queryHeader |-> isRootHeader(trimmed, <<"Q","u","e","r","y">>),
         mutationHeader |-> isRootHeader(trimmed, <<"M","u","t","a","t","i","o","n">>),
         isDescriptionLine |-> isDescriptionLineOf(trimmed),
         descText |-> descTextOf(trimmed),
         closesTripleQuote |-> closesTripleQuote(trimmed),
         braceDelta |-> braceDelta(line),
         hasOpen |-> includes(line, "{"),
         hasClose |-> includes(line, "}"),
         field |-> fieldMatchOf(trimmed),
         keyword |-> startsWithKeyword(trimmed),
         header |-> headerMatchOf(trimmed)]

AllLines == UNION Alphabets \cup LinesOpsLong \cup LinesDescribed
Facts == [line \in AllLines |-> lineFacts(line)]

\* lines 112-131: what is read out of a field match
fieldParts(m) ==
    [parameters |-> parametersOf(m.params),
     returnType |-> trim(StripBraceTail(trim(m.ret)))]

FieldParts == [line \in AllLines |-> fieldParts(Facts[line].field)]

\* ---------------------------------------------------------------- the state
VARIABLES
    schema,      \* the schema prop
    pc,          \* "render", "Query", "Mutation", "types", "done"
    lines,       \* schema.split('\n')  (line 45)
    i,           \* the loop index of the running pass, counted from 1
    ops,         \* line 43
    typeDefs,    \* line 44
    po,          \* the locals of parseOperationsFromType (lines 49-54)
    tp,          \* the locals of the type-definition pass (lines 177-181)
    operations,  \* the memoized result (line 40)
    types,       \* the memoized result (line 40)
    at,          \* history: the source line index behind each entry
    prev         \* history: how often the block has run, and the result of
                 \* the run before

\* The interactive state of the viewer and of the explorer plugin.
VARIABLES
    expandedOperations,  \* line 36
    expandedSections,    \* line 37
    copiedEndpoint,      \* line 38
    endPoints,           \* the endpoints apiMetadata.endPoints has a URL for
    writes,              \* the clipboard writes awaited (lines 374, 484)
    timers,              \* the pending 2-second timers, oldest first
    clicks,              \* history: the number of clicks on the endpoint boxes
    copiedBy,            \* history: the click whose handler set copiedEndpoint
    operationName,       \* the editor context's operation name (part_000)
    calls,               \* history: the calls the last handleRunOperation made
    event                \* history: the last handler or callback that ran

view ==
    <<expandedOperations, expandedSections, copiedEndpoint, endPoints, writes,
      timers, clicks, copiedBy, operationName, calls, event>>

vars ==
    <<schema, pc, lines, i, ops, typeDefs, po, tp, operations, types, at, prev,
      view>>

\* lines 49-54; brk records that the loop was left by the break of line 160
poFresh ==
    [typeOps |-> <<>>, inTypeBlock |-> FALSE, braceCount |-> 0,
     currentDescription |-> <<>>, descriptionLines |-> <<>>,
     inDescription |-> FALSE, brk |-> FALSE]

\* lines 177-181
tpFresh ==
    [currentType |-> Null, currentDescription |-> <<>>, braceCount |-> 0,
     inType |-> FALSE, typeContent |-> <<>>]

\* history variable: line indices of the entries of po.typeOps, ops and
\* typeDefs, of the open currentType and of the root header the running
\* operation pass has met last (0 when there is none)
atFresh ==
    [typeOps |-> <<>>, ops |-> <<>>, typeDefs |-> <<>>, currentType |-> 0, header |-> 0]

\* history variable: no run has finished
prevFresh == [runs |-> 0, operations |-> <<>>, types |-> <<>>]

\* the state after construction, for a schema prop out of the set S
\* lines 36-38: the state hooks at the first render; E is the set of the
\* apiMetadata.endPoints values considered
ViewInit(E) ==
    /\ expandedOperations = {}
    /\ expandedSections = {}
    /\ copiedEndpoint = NullText
    /\ endPoints \in E
    /\ writes = {}
    /\ timers = <<>>
    /\ clicks = 0
    /\ copiedBy = 0
    /\ operationName = NullText
    /\ calls = <<>>
    /\ event = [name |-> "render", arg |-> ""]

InitWith(S) ==
    /\ ViewInit({{"production", "sandbox"}})
    /\ schema \in S
    /\ pc = "render"
    /\ lines = <<>>
    /\ i = 1
    /\ ops = <<>>
    /\ typeDefs = <<>>
    /\ po = poFresh
    /\ tp = tpFresh
    /\ operations = <<>>
    /\ types = <<>>
    /\ at = atFresh
    /\ prev = prevFresh

Init == InitWith(Schemas)

opsKept == ops

\* line 43: const ops = []
opsAtCall == <<>>

noSchemaButEmptyText(s) == s = Undefined \/ s = NotText

\* line 41: !schema || typeof schema !== 'string'
noSchema(s) == s = Undefined \/ s = NotText \/ s = <<>>

\* line 41: nothing to parse
MemoEmpty ==
    /\ pc = "render"
    /\ noSchema(schema)
    /\ operations' = <<>>
    /\ types' = <<>>
    /\ pc' = "done"
    /\ UNCHANGED <<view, schema, prev, lines, i, ops, typeDefs, po, tp, at>>

\* lines 43-45 and the call of line 169
MemoStart ==
    /\ pc = "render"
    /\ ~noSchema(schema)
    /\ lines' = split(schema)
    /\ ops' = opsAtCall
    /\ typeDefs' = <<>>
    /\ po' = poFresh
    /\ i' = 1
    /\ pc' = "Query"
    /\ at' = atFresh
    /\ UNCHANGED <<view, schema, prev, tp, operations, types>>

sameIndex(k) == k

\* lines 56, 183: i++ of the two for loops
nextIndex(k) == k + 1

\* ------------------------------------------------- parseOperationsFromType
inOpPass == pc \in {"Query", "Mutation"}
operationTypeOf(p) == IF p = "Query" THEN "query" ELSE "mutation"

opLooping == inOpPass /\ ~po.brk /\ i <= Len(lines)

\* line 70, for the root type of the running pass
atRootHeader ==
    IF pc = "Query" THEN Facts[lines[i]].queryHeader ELSE Facts[lines[i]].mutationHeader

\* lines 60-67: an empty line
ParseBlank ==
    /\ opLooping
    /\ Facts[lines[i]].trimmed = <<>>
    /\ po' = IF po.inDescription THEN po
             ELSE [po EXCEPT !.currentDescription = <<>>, !.descriptionLines = <<>>]
    /\ i' = nextIndex(i)
    /\ UNCHANGED <<view, schema, prev, pc, lines, ops, typeDefs, tp, operations, types, at>>

\* line 76: only an opening brace of the header line is counted
headerBraceCount(hasOpen) == IF hasOpen THEN 1 ELSE 0

\* lines 69-78: the header of the root block
ParseHeader ==
    /\ opLooping
    /\ Facts[lines[i]].trimmed # <<>>
    /\ atRootHeader
    /\ po' = [po EXCEPT !.inTypeBlock = TRUE,
                        !.braceCount = headerBraceCount(Facts[lines[i]].hasOpen),
                        !.currentDescription = <<>>,
                        !.descriptionLines = <<>>,
                        !.inDescription = FALSE]
    /\ at' = [at EXCEPT !.header = i]
    /\ i' = nextIndex(i)
    /\ UNCHANGED <<view, schema, prev, pc, lines, ops, typeDefs, tp, operations, types>>

\* line 80 false: a line outside the root block
ParseOutside ==
    /\ opLooping
    /\ Facts[lines[i]].trimmed # <<>>
    /\ ~atRootHeader
    /\ ~po.inTypeBlock
    /\ i' = nextIndex(i)
    /\ UNCHANGED <<view, schema, prev, pc, lines, ops, typeDefs, po, tp, operations, types, at>>

\* a line that reaches line 80 with inTypeBlock set
opInBlock ==
    /\ opLooping
    /\ Facts[lines[i]].trimmed # <<>>
    /\ ~atRootHeader
    /\ po.inTypeBlock

\* lines 81-82
braceCountAfter(count, delta) == count + delta

\* lines 87-99: a description line inside the block
ParseDescription ==
    /\ opInBlock
    /\ LET f == Facts[lines[i]]
           count == braceCountAfter(po.braceCount, f.braceDelta)
       IN  /\ f.isDescriptionLine /\ count > 0
           /\ po' = [po EXCEPT
                       !.braceCount = count,
                       !.inDescription = ~f.closesTripleQuote,
                       !.descriptionLines =
                           IF f.descText # <<>> THEN Append(@, f.descText) ELSE @]
    /\ i' = nextIndex(i)
    /\ UNCHANGED <<view, schema, prev, pc, lines, ops, typeDefs, tp, operations, types, at>>

\* lines 101-105: the description that is pending when a line that is not a
\* description line is parsed
pendingDescription(f, isDescriptionLine, count) ==
    IF f.inDescription /\ ~isDescriptionLine /\ count > 0
    THEN trim(join(f.descriptionLines, <<" ">>))
    ELSE f.currentDescription

descriptionUntrimmed(currentDescription) ==
    IF currentDescription # <<>> THEN currentDescription ELSE Undefined

\* lines 134, 215: currentDescription.trim() || undefined
descriptionOrUndefined(currentDescription) ==
    IF trim(currentDescription) # <<>> THEN trim(currentDescription) ELSE Undefined

parametersAsParsed(parameters) == parameters

\* line 140: parameters.length > 0 ? parameters : undefined
parametersOrUndefined(parameters) ==
    IF Len(parameters) > 0 THEN parameters ELSE UndefinedList

\* line 141: returnType.replace(/[!,]/g, '').trim()
storedReturnTypeOf(returnType) == trim(RemoveChars(returnType, {"!", ","}))

\* lines 133-143: the pushed operation
operationOf(m, parts, operationType, currentDescription, trimmed) ==
    [name |-> m.name,
     type |-> operationType,
     description |-> descriptionOrUndefined(currentDescription),
     parameters |-> parametersOrUndefined(parts.parameters),
     returnType |-> storedReturnTypeOf(parts.returnType),
     content |-> trimmed]

\* lines 158-161
leavesBlock(count, hasClose) == count = 0 /\ hasClose

keptDescription(f) == f

\* lines 146-147: the description is reset after it has been used
clearedDescription(f) ==
    [f EXCEPT !.currentDescription = <<>>, !.descriptionLines = <<>>]

\* lines 101-147, 158-161: a field declaration inside the block
ParseField ==
    /\ opInBlock
    /\ LET f == Facts[lines[i]]
           count == braceCountAfter(po.braceCount, f.braceDelta)
           description == pendingDescription(po, f.isDescriptionLine, count)
       IN  /\ count > 0 /\ ~f.isDescriptionLine /\ f.field.ok
           /\ po' = clearedDescription(
                       [po EXCEPT
                          !.braceCount = count,
                          !.inDescription = FALSE,
                          !.currentDescription = description,
                          !.typeOps = Append(@, operationOf(f.field, FieldParts[lines[i]],
                                                            operationTypeOf(pc), description,
                                                            f.trimmed))])
           /\ at' = [at EXCEPT !.typeOps = Append(@, i)]
    /\ i' = nextIndex(i)
    /\ UNCHANGED <<view, schema, prev, pc, lines, ops, typeDefs, tp, operations, types>>

\* lines 101-105, 148-161: any other line inside the block
ParseOther ==
    /\ opInBlock
    /\ LET f == Facts[lines[i]]
           count == braceCountAfter(po.braceCount, f.braceDelta)
           description == pendingDescription(po, f.isDescriptionLine, count)
           parsed == count > 0 /\ ~f.isDescriptionLine
           drop == parsed /\ description # <<>>
           leave == leavesBlock(count, f.hasClose)
       IN  /\ ~(f.isDescriptionLine /\ count > 0)
           /\ ~(parsed /\ f.field.ok)
           /\ po' = [po EXCEPT
                       !.braceCount = count,
                       !.inDescription =
                           IF @ /\ ~f.isDescriptionLine /\ count > 0 THEN FALSE ELSE @,
                       !.currentDescription = IF drop THEN <<>> ELSE description,
                       !.descriptionLines = IF drop THEN <<>> ELSE @,
                       !.inTypeBlock = ~leave,
                       !.brk = leave]
    /\ i' = nextIndex(i)
    /\ UNCHANGED <<view, schema, prev, pc, lines, ops, typeDefs, tp, operations, types, at>>

\* a push that puts the new entries in front
pushAllInFront(list, more) == more \o list

\* lines 170 and 174: ops.push(...typeOps)
pushAll(list, more) == list \o more

\* lines 165, 169-174: the pass returns and its operations are pushed; the
\* Mutation pass, then the type-definition pass, starts
ParseReturn ==
    /\ inOpPass
    /\ po.brk \/ i > Len(lines)
    /\ ops' = pushAll(ops, po.typeOps)
    /\ at' = [at EXCEPT !.ops = pushAll(@, at.typeOps), !.typeOps = <<>>,
                        !.header = 0]
    /\ po' = poFresh
    /\ i' = 1
    /\ pc' = IF pc = "Query" THEN "Mutation" ELSE "types"
    /\ tp' = tpFresh
    /\ UNCHANGED <<view, schema, prev, lines, typeDefs, operations, types>>

\* ------------------------------------------------- the type-definition pass
typeLooping == pc = "types" /\ i <= Len(lines)

\* line 187
TypeBlank ==
    /\ typeLooping
    /\ Facts[lines[i]].trimmed = <<>>
    /\ i' = nextIndex(i)
    /\ UNCHANGED <<view, schema, prev, pc, lines, ops, typeDefs, po, tp, operations, types, at>>

\* line 190
isCapturedDescription(isDescriptionLine, inType) == isDescriptionLine /\ ~inType

\* lines 189-193: a description line outside a definition
TypeDescription ==
    /\ typeLooping
    /\ Facts[lines[i]].trimmed # <<>>
    /\ isCapturedDescription(Facts[lines[i]].isDescriptionLine, tp.inType)
    /\ tp' = [tp EXCEPT !.currentDescription = @ \o Facts[lines[i]].descText \o <<" ">>]
    /\ i' = nextIndex(i)
    /\ UNCHANGED <<view, schema, prev, pc, lines, ops, typeDefs, po, operations, types, at>>

\* a line that reaches the keyword test of line 196
typeLineAt196 ==
    /\ typeLooping
    /\ Facts[lines[i]].trimmed # <<>>
    /\ ~isCapturedDescription(Facts[lines[i]].isDescriptionLine, tp.inType)

\* lines 207-208, 232-233, 244-245: the finished definition
finished(currentType, typeContent) ==
    [currentType EXCEPT !.content = join(typeContent, <<"\n">>)]

withoutOpenDefinition(defs, currentType, typeContent) == defs

\* lines 206-209, 243-246: the definition that is open is pushed
withOpenDefinition(defs, currentType, typeContent) ==
    IF currentType # Null THEN Append(defs, finished(currentType, typeContent)) ELSE defs

\* lines 196-204: a keyword line that opens nothing (no identifier after the
\* keyword, or a reserved root type)
TypeSkip ==
    /\ typeLineAt196
    /\ Facts[lines[i]].keyword
    /\ LET m == Facts[lines[i]].header
       IN  ~m.ok \/ isReservedName(m.name)
    /\ i' = nextIndex(i)
    /\ UNCHANGED <<view, schema, prev, pc, lines, ops, typeDefs, po, tp, operations, types, at>>

contentKept(typeContent, line) == Append(typeContent, line)

\* line 218: the collected lines start again with the header line
contentFrom(typeContent, line) == <<line>>

\* lines 196-225: a definition header
TypeOpen ==
    /\ typeLineAt196
    /\ Facts[lines[i]].keyword
    /\ LET m == Facts[lines[i]].header
       IN  /\ m.ok /\ ~isReservedName(m.name)
           /\ typeDefs' = withOpenDefinition(typeDefs, tp.currentType, tp.typeContent)
           /\ at' = [at EXCEPT
                       !.typeDefs = IF tp.currentType # Null
                                    THEN Append(@, at.currentType) ELSE @,
                       !.currentType = i]
           /\ tp' = [currentType |->
                         [name |-> m.name,
                          kind |-> m.kind,
                          description |->
                              descriptionOrUndefined(tp.currentDescription),
                          content |-> <<>>],
                     typeContent |-> contentFrom(tp.typeContent, lines[i]),
                     currentDescription |-> <<>>,
                     inType |-> TRUE,
                     braceCount |-> Facts[lines[i]].braceDelta]
    /\ i' = nextIndex(i)
    /\ UNCHANGED <<view, schema, prev, pc, lines, ops, po, operations, types>>

\* line 231
closesDefinition(count, hasClose, kind) ==
    count = 0 /\ (hasClose \/ kind = "scalar" \/ kind = "union")

\* lines 226-237: a line of the open definition
TypeBody ==
    /\ typeLineAt196
    /\ ~Facts[lines[i]].keyword
    /\ tp.inType /\ tp.currentType # Null
    /\ LET count == tp.braceCount + Facts[lines[i]].braceDelta
           content == Append(tp.typeContent, lines[i])
       IN  IF closesDefinition(count, Facts[lines[i]].hasClose, tp.currentType.kind)
           THEN /\ typeDefs' = Append(typeDefs, finished(tp.currentType, content))
                /\ at' = [at EXCEPT !.typeDefs = Append(@, at.currentType),
                                    !.currentType = 0]
                /\ tp' = [tp EXCEPT !.currentType = Null, !.typeContent = <<>>,
                                    !.inType = FALSE, !.braceCount = count]
           ELSE /\ tp' = [tp EXCEPT !.typeContent = content, !.braceCount = count]
                /\ UNCHANGED <<typeDefs, at>>
    /\ i' = nextIndex(i)
    /\ UNCHANGED <<view, schema, prev, pc, lines, ops, po, operations, types>>

\* lines 238-240: any other line outside a definition
TypeOther ==
    /\ typeLineAt196
    /\ ~Facts[lines[i]].keyword
    /\ ~(tp.inType /\ tp.currentType # Null)
    /\ tp' = [tp EXCEPT !.currentDescription = <<>>]
    /\ i' = nextIndex(i)
    /\ UNCHANGED <<view, schema, prev, pc, lines, ops, typeDefs, po, operations, types, at>>

\* lines 243-248: the definition still open at the end is pushed and the
\* result is returned
TypeReturn ==
    /\ pc = "types"
    /\ i > Len(lines)
    /\ LET defs == withOpenDefinition(typeDefs, tp.currentType, tp.typeContent)
       IN  /\ typeDefs' = defs
           /\ types' = defs
    /\ at' = [at EXCEPT
                !.typeDefs = IF tp.currentType # Null
                             THEN Append(@, at.currentType) ELSE @]
    /\ operations' = ops
    /\ pc' = "done"
    /\ UNCHANGED <<view, schema, prev, lines, i, ops, po, tp>>

\* lines 251-252
queries == SelectSeq(operations, LAMBDA op : op.type = "query")
mutations == SelectSeq(operations, LAMBDA op : op.type = "mutation")

Next ==
    \/ MemoEmpty
    \/ MemoStart
    \/ ParseBlank
    \/ ParseHeader
    \/ ParseOutside
    \/ ParseDescription
    \/ ParseField
    \/ ParseOther
    \/ ParseReturn
    \/ TypeBlank
    \/ TypeDescription
    \/ TypeSkip
    \/ TypeOpen
    \/ TypeBody
    \/ TypeOther
    \/ TypeReturn

Spec == Init /\ [][Next]_vars

\* A smaller set of texts for the specifications that do more with each
\* text: one alphabet with a line for every branch of the two loops.
LinesShort ==
    {Ln_QueryOpen, Ln_FieldFoo, Ln_Close, Ln_Comment, Ln_Junk, Ln_TypeOpen, Ln_Blank}

SchemasShort ==
    {join(ls, <<"\n">>) : ls \in SeqsUpTo(LinesShort, MaxLines)}
        \cup {Undefined, NotText}

InitShort == InitWith(SchemasShort)

\* Texts of one more line with described fields and described types.
SchemasDescribed ==
    {join(ls, <<"\n">>) : ls \in SeqsUpTo(LinesDescribed, MaxLines + 1)}
        \cup {Undefined, NotText}

InitDescribed == InitWith(SchemasDescribed)

SpecDescribed == InitDescribed /\ [][Next]_vars

\* The block runs synchronously: once called it keeps taking steps.
SpecLive == InitShort /\ [][Next]_vars /\ WF_vars(Next)

\* ------------------------------------------------------- the block run again
\* line 40: the callback of useMemo is called again for the same schema (a
\* second mount of the component); its locals are those of the new call, the
\* result of the call before is kept in prev
Recompute ==
    /\ pc = "done"
    /\ prev.runs + 1 < MaxRuns
    /\ prev' = [runs |-> prev.runs + 1, operations |-> operations, types |-> types]
    /\ pc' = "render"
    /\ UNCHANGED <<view, schema, lines, i, ops, typeDefs, po, tp, operations, types, at>>

NextRerun ==
    \/ Next
    \/ Recompute

SpecRerun == InitShort /\ [][NextRerun]_vars

\* ------------------------------------------------- the interactive state
\* The keys the rendered page passes to the two toggles (lines 583, 803,
\* 1023 and 658, 878, 1098).
SectionKeys == {"queries", "mutations", "types"}
OperationKeys == {"query-foo", "type-A"}
\* The two endpoint boxes.
EndpointNames == {"production", "sandbox"}
\* The operation names the explorer hands to onRunOperation.
RunNames == {NullText, "", "GetFoo"}

\* what the page parsed stays as it is while the user acts on it
parsed == <<schema, pc, lines, i, ops, typeDefs, po, tp, operations, types, at, prev>>

toggleAddOnly(expanded, key) == expanded \cup {key}

\* lines 255-260, 265-270: the copy of the set with key deleted or added
toggle(expanded, key) ==
    IF key \in expanded THEN expanded \ {key} ELSE expanded \cup {key}

\* lines 254-262
toggleOperation(operationKey) ==
    /\ expandedOperations' = toggle(expandedOperations, operationKey)
    /\ event' = [name |-> "toggleOperation", arg |-> operationKey]
    /\ UNCHANGED <<parsed, expandedSections, copiedEndpoint, endPoints, writes,
                   timers, clicks, copiedBy, operationName, calls>>

\* lines 264-272
toggleSection(sectionName) ==
    /\ expandedSections' = toggle(expandedSections, sectionName)
    /\ event' = [name |-> "toggleSection", arg |-> sectionName]
    /\ UNCHANGED <<parsed, expandedOperations, copiedEndpoint, endPoints, writes,
                   timers, clicks, copiedBy, operationName, calls>>

\* lines 371-374, 481-484: a click on an endpoint box; with a URL the handler
\* starts the clipboard write and waits for it
CopyClick(endpoint) ==
    /\ clicks < MaxClicks
    /\ clicks' = clicks + 1
    /\ writes' = IF endpoint \in endPoints
                 THEN writes \cup {[click |-> clicks + 1, endpoint |-> endpoint]}
                 ELSE writes
    /\ event' = [name |-> "onClick", arg |-> endpoint]
    /\ UNCHANGED <<parsed, expandedOperations, expandedSections, copiedEndpoint,
                   endPoints, timers, copiedBy, operationName, calls>>

\* lines 375-376, 485-486: the write succeeded; the handler goes on
WriteResolved ==
    /\ \E w \in writes :
           /\ writes' = writes \ {w}
           /\ copiedEndpoint' = w.endpoint
           /\ copiedBy' = w.click
           /\ timers' = Append(timers, w.click)
           /\ event' = [name |-> "copied", arg |-> w.endpoint]
    /\ UNCHANGED <<parsed, expandedOperations, expandedSections, endPoints, clicks,
                   operationName, calls>>

\* lines 378-380, 488-490: the write failed; the error is logged
WriteRejected ==
    /\ \E w \in writes :
           /\ writes' = writes \ {w}
           /\ event' = [name |-> "catch", arg |-> w.endpoint]
    /\ UNCHANGED <<parsed, expandedOperations, expandedSections, copiedEndpoint,
                   endPoints, timers, clicks, copiedBy, operationName, calls>>

\* lines 376, 486: the callback of the oldest timer (all delays are 2000 ms,
\* so the timers fire in the order they were started)
TimerFires ==
    /\ timers # <<>>
    /\ timers' = Tail(timers)
    /\ copiedEndpoint' = NullText
    /\ event' = [name |-> "timeout", arg |-> ""]
    /\ UNCHANGED <<parsed, expandedOperations, expandedSections, endPoints, writes,
                   clicks, copiedBy, operationName, calls>>

isTruthyAlways(name) == TRUE

\* part_000 line 60: if (operationName)
isTruthy(name) == name # NullText /\ name # ""

\* part_000 lines 58-70: handleRunOperation
handleRunOperation(name) ==
    /\ IF isTruthy(name)
       THEN /\ operationName' = name
            /\ calls' = <<[fn |-> "setOperationName", arg |-> name],
                          [fn |-> "run", arg |-> ""]>>
       ELSE /\ operationName' = operationName
            /\ calls' = <<[fn |-> "run", arg |-> ""]>>
    /\ event' = [name |-> "handleRunOperation", arg |-> name]
    /\ UNCHANGED <<parsed, expandedOperations, expandedSections, copiedEndpoint,
                   endPoints, writes, timers, clicks, copiedBy>>

NextView ==
    \/ \E k \in OperationKeys : toggleOperation(k)
    \/ \E k \in SectionKeys : toggleSection(k)
    \/ \E e \in EndpointNames : CopyClick(e)
    \/ WriteResolved
    \/ WriteRejected
    \/ TimerFires
    \/ \E name \in RunNames : handleRunOperation(name)

\* the page of a schema that is not given, with both endpoint URLs or with
\* the production URL alone
InitView ==
    /\ ViewInit({{"production", "sandbox"}, {"production"}})
    /\ schema = Undefined
    /\ pc = "render"
    /\ lines = <<>>
    /\ i = 1
    /\ ops = <<>>
    /\ typeDefs = <<>>
    /\ po = poFresh
    /\ tp = tpFresh
    /\ operations = <<>>
    /\ types = <<>>
    /\ at = atFresh
    /\ prev = prevFresh

SpecView == InitView /\ [][NextView]_vars

\* ------------------------------------------------------------ the claims
\* Reference notions the claims are stated with, computed from the source
\* text alone (all braces of a line are counted).
countChar(s, c) == Cardinality({k \in 1..Len(s) : s[k] = c})
netBraces(line) == countChar(line, "{") - countChar(line, "}")

RECURSIVE depthOver(_, _, _)
\* the number of braces opened and not closed by lines h..m of ls
depthOver(ls, h, m) ==
    IF m < h THEN 0 ELSE depthOver(ls, h, m - 1) + netBraces(ls[m])

\* line j lies inside the block that line h opens
insideBlock(ls, h, j) == h < j /\ \A m \in h..(j - 1) : depthOver(ls, h, m) > 0

\* every brace opened by lines h..m of ls is closed again
closedAt(ls, h, m) ==
    depthOver(ls, h, m) <= 0 /\ \E n \in h..m : includes(ls[n], "{")

\* the line (none or one) that holds the brace matching the first brace
\* opened from line h on
closingLines(ls, h) ==
    {m \in h..Len(ls) :
        closedAt(ls, h, m) /\ \A n \in h..(m - 1) : ~closedAt(ls, h, n)}

isBlank(line) == trim(line) = <<>>
withoutBlanks(ls) == SelectSeq(ls, LAMBDA l : ~isBlank(l))
isCommentLine(line) == startsWith(trim(line), <<"#">>)
isOneLineDoc(line) == closesTripleQuote(trim(line))
isBracedKind(kind) == kind \in {"type", "interface", "enum", "input"}

\* C1: a schema whose Query block holds exactly the field foo: Bar, in the
\* block form or in the one-line form, yields exactly one Operation, with
\* name foo, kind query, returnType Bar and no parameters.
C1_SingleFieldQuery ==
    (/\ pc = "done"
     /\ withoutBlanks(lines) \in {<<Ln_QueryOneLine>>,
                                  <<Ln_QueryOpen, Ln_FieldFoo, Ln_Close>>})
    => /\ Len(operations) = 1
       /\ operations[1].name = <<"f","o","o">>
       /\ operations[1].type = "query"
       /\ operations[1].returnType = <<"B","a","r">>
       /\ operations[1].parameters = UndefinedList

\* C2: an Operation whose field line has a single-line """...""" line
\* directly above it has the text between the quotes as its description.
C2_OneLineDocAttached ==
    pc = "done" =>
        \A k \in 1..Len(operations) :
            LET j == at.ops[k]
            IN  (j > 1 /\ isOneLineDoc(lines[j - 1]))
                => operations[k].description = descTextOf(trim(lines[j - 1]))

\* C3: an Operation whose field line is separated by one or more blank lines
\* from the last description line above it has no description.
C3_BlankGapDropsDescription ==
    pc = "done" =>
        \A k \in 1..Len(operations) :
            LET j == at.ops[k]
            IN  (\E d \in 1..(j - 2) :
                    /\ isCommentLine(lines[d]) \/ isOneLineDoc(lines[d])
                    /\ \A b \in (d + 1)..(j - 1) : isBlank(lines[b]))
                => operations[k].description = Undefined

\* C4: every Operation comes from a line inside the root block of its kind:
\* after a header line of that root type and before the brace that closes it.
C4_OperationsFromOwnRootBlock ==
    pc = "done" =>
        \A k \in 1..Len(operations) :
            \E h \in 1..Len(lines) :
                /\ isRootHeader(trim(lines[h]),
                                IF operations[k].type = "query"
                                THEN <<"Q","u","e","r","y">>
                                ELSE <<"M","u","t","a","t","i","o","n">>)
                /\ insideBlock(lines, h, at.ops[k])

\* C5: no TypeDefinition, finished or open, is named Query, Mutation or
\* Subscription.
C5_NoReservedTypeDefinition ==
    LET reserved == {<<"Q","u","e","r","y">>, <<"M","u","t","a","t","i","o","n">>,
                     <<"S","u","b","s","c","r","i","p","t","i","o","n">>}
    IN  /\ \A k \in 1..Len(typeDefs) : typeDefs[k].name \notin reserved
        /\ \A k \in 1..Len(types) : types[k].name \notin reserved
        /\ tp.currentType # Null => tp.currentType.name \notin reserved

\* C5 witness: the type pass has met a reserved header and a definition
\* header, and has produced a TypeDefinition.
C5_Witness ==
    /\ pc = "done"
    /\ types # <<>>
    /\ \E j \in 1..Len(lines) :
          Facts[lines[j]].header.ok /\ Facts[lines[j]].header.name = <<"Q","u","e","r","y">>

\* C6: the content of a braced TypeDefinition that is closed on a later line
\* starts with its declaration line and ends with the line of the matching
\* closing brace, and holds no more lines than lie between the two.
C6_ContentEndsAtMatchingBrace ==
    pc = "done" =>
        \A k \in 1..Len(types) :
            LET s == at.typeDefs[k]
                parts == split(types[k].content)
            IN  \A c \in closingLines(lines, s) :
                    (isBracedKind(types[k].kind) /\ c > s)
                    => /\ parts[1] = lines[s]
                       /\ parts[Len(parts)] = lines[c]
                       /\ Len(parts) <= c - s + 1

\* C7: a definition whose braces open and close on its declaration line has
\* exactly that line as its content.
C7_OneLineDefinitionContent ==
    pc = "done" =>
        \A k \in 1..Len(types) :
            LET s == at.typeDefs[k]
            IN  (includes(lines[s], "{") /\ netBraces(lines[s]) = 0)
                => /\ types[k].content = lines[s]
                   /\ Cardinality({n \in 1..Len(types) : at.typeDefs[n] = s}) = 1

\* C8: the content of a scalar TypeDefinition is its declaration line alone.
C8_ScalarContentIsDeclaration ==
    pc = "done" =>
        \A k \in 1..Len(types) :
            types[k].kind = "scalar" => types[k].content = lines[at.typeDefs[k]]

\* C9: the content of a TypeDefinition is a contiguous run of source lines
\* that starts at its declaration line, joined with newlines.
C9_ContentIsContiguousRun ==
    pc = "done" =>
        \A k \in 1..Len(types) :
            LET s == at.typeDefs[k]
            IN  \E b \in s..Len(lines) :
                    types[k].content = join(SubSeq(lines, s, b), <<"\n">>)

\* C10: in the Operation list no mutation precedes a query, and two entries
\* of one kind stand in the order of their source lines.
C10_QueriesBeforeMutations ==
    /\ \A a, b \in 1..Len(ops) :
          a < b => /\ ~(ops[a].type = "mutation" /\ ops[b].type = "query")
                   /\ ops[a].type = ops[b].type => at.ops[a] < at.ops[b]
    /\ operations = queries \o mutations

\* C10 witness: the Mutation header stands above the Query header, both
\* blocks have produced operations, and one kind has two entries.
C10_Witness ==
    /\ pc = "done"
    /\ \E a, b \in 1..Len(operations) :
          /\ operations[a].type = "query" /\ operations[b].type = "mutation"
          /\ at.ops[b] < at.ops[a]
    /\ \E a, b \in 1..Len(operations) :
          a < b /\ operations[a].type = operations[b].type
    /\ \E m, q \in 1..Len(lines) :
          m < q /\ Facts[lines[m]].mutationHeader /\ Facts[lines[q]].queryHeader

\* The arguments a field line declares, read from the source line: the text
\* between the parentheses, cut at the commas, each piece cut at its first
\* colon into the name and the raw type expression.
RECURSIVE piecesOf(_, _)
piecesOf(s, sep) ==
    LET at1 == {k \in 1..Len(s) : s[k] = sep}
    IN  IF at1 = {} THEN <<s>>
        ELSE <<SubSeq(s, 1, Min(at1) - 1)>>
                 \o piecesOf(SubSeq(s, Min(at1) + 1, Len(s)), sep)

argumentsOf(line) ==
    LET open == {k \in 1..Len(line) : line[k] = "("}
        close == {k \in 1..Len(line) : line[k] = ")"}
        inner == IF open = {} \/ close = {} THEN <<>>
                 ELSE SubSeq(line, Min(open) + 1, Min(close) - 1)
        declared == SelectSeq(piecesOf(inner, ","), LAMBDA piece : includes(piece, ":"))
    IN  [j \in 1..Len(declared) |->
            LET colon == Min({k \in 1..Len(declared[j]) : declared[j][k] = ":"})
            IN  [name |-> trim(SubSeq(declared[j], 1, colon - 1)),
                 raw |-> SubSeq(declared[j], colon + 1, Len(declared[j]))]]

\* C11: every parameter extracted from a field's argument list has required
\* true exactly when the raw type expression of that argument in the source
\* line contains "!", and its stored type contains no "!".
C11_RequiredIffNonNullMark ==
    \A k \in 1..Len(ops) :
        ops[k].parameters # UndefinedList =>
            LET args == argumentsOf(lines[at.ops[k]])
                parameters == ops[k].parameters
            IN  /\ Len(parameters) = Len(args)
                /\ \A j \in 1..Len(parameters) :
                      /\ parameters[j].name = args[j].name
                      /\ parameters[j].required = includes(args[j].raw, "!")
                      /\ ~includes(parameters[j].type, "!")

\* C11 witness: a returned operation with an argument without "!", and one
\* with an argument whose raw type holds "!" before its last character.
C11_Witness ==
    /\ pc = "done"
    /\ \E k \in 1..Len(operations) :
          /\ operations[k].parameters # UndefinedList
          /\ \E j \in 1..Len(operations[k].parameters) :
                /\ ~operations[k].parameters[j].required
                /\ operations[k].parameters[j].type = <<"I", "n", "t">>
          /\ \E j \in 1..Len(operations[k].parameters) :
                /\ operations[k].parameters[j].required
                /\ operations[k].parameters[j].type = <<"[", "I", "D", "]">>
    /\ \E k \in 1..Len(operations) :
          /\ operations[k].parameters # UndefinedList
          /\ operations[k].parameters[1] =
                [name |-> <<"i", "d">>, type |-> <<"I", "D">>, required |-> TRUE]

\* C12: the returnType of every Operation holds none of the decoration
\* characters "!", "[" and "]".
C12_ReturnTypeUndecorated ==
    \A k \in 1..Len(ops) :
        /\ ~includes(ops[k].returnType, "!")
        /\ ~includes(ops[k].returnType, "[")
        /\ ~includes(ops[k].returnType, "]")

\* C13: when the schema is the empty text, undefined or not a text, no pass
\* is ever started, no line is split off, and the returned Operation list
\* and TypeDefinition list are empty.
C13_NoSchemaNoScan ==
    schema \in {<<>>, Undefined, NotText} =>
        /\ pc \in {"render", "done"}
        /\ lines = <<>> /\ i = 1
        /\ ops = <<>> /\ typeDefs = <<>>
        /\ po = poFresh /\ tp = tpFresh
        /\ operations = <<>> /\ types = <<>>

\* C13 witness: the block has returned for the empty text.
C13_Witness == pc = "done" /\ schema = <<>>

\* The passes still to run, the running one included.
passesLeft(p) ==
    CASE p = "render" -> 4
      [] p = "Query" -> 3
      [] p = "Mutation" -> 2
      [] p = "types" -> 1
      [] p = "done" -> 0

\* C14: on every input each pass moves from a line to the line below it and
\* never back, so that it visits a line at most once; a step either does
\* that or ends the pass; while the block has not returned a step is
\* possible; and the block does return.
C14_EachPassVisitsOnceAndEnds ==
    /\ [][\/ /\ pc' = pc
              /\ pc \in {"Query", "Mutation", "types"}
              /\ i \in 1..Len(lines)
              /\ i' = i + 1
              /\ lines' = lines
           \/ passesLeft(pc') < passesLeft(pc)]_vars
    /\ [](pc # "done" => ENABLED Next)
    /\ <>(pc = "done")

\* C14 witness: the block has returned for a text of lines that are no
\* definition: closing braces without an opening one and an unknown word.
C14_Witness ==
    /\ pc = "done"
    /\ Len(lines) = MaxLines
    /\ \E a, b \in 1..Len(lines) : lines[a] = Ln_Junk /\ lines[b] = Ln_Close
    /\ \A k \in 1..Len(lines) : lines[k] \in {Ln_Junk, Ln_Close, Ln_Comment}

\* C15: a second run of the block on the same text returns the Operation
\* list and the TypeDefinition list of the first run; and every pass starts
\* from fresh locals, in the first run and in a later one.
C15_SameTextSameResult ==
    /\ (pc = "done" /\ prev.runs > 0) =>
          /\ operations = prev.operations
          /\ types = prev.types
    /\ (pc \in {"Query", "Mutation"} /\ i = 1) => po = poFresh
    /\ (pc = "Query" /\ i = 1) => (ops = <<>> /\ typeDefs = <<>>)
    /\ (pc = "types" /\ i = 1) => (tp = tpFresh /\ typeDefs = <<>>)

\* C15 witness: the second run has returned, with an Operation and a
\* TypeDefinition.
C15_Witness ==
    /\ pc = "done"
    /\ prev.runs = 1
    /\ Len(operations) > 0
    /\ Len(types) > 0

\* C16: the parameters of an Operation are never the empty sequence: they
\* are absent when the field line declares no argument (no parentheses, or
\* parentheses without a name: type pair), and otherwise hold one entry for
\* each declared argument, in the order of the line.
C16_ParametersAbsentOrNonEmpty ==
    \A k \in 1..Len(ops) :
        LET args == argumentsOf(lines[at.ops[k]])
        IN  /\ ops[k].parameters # <<>>
            /\ args = <<>> => ops[k].parameters = UndefinedList
            /\ args # <<>> =>
                  /\ ops[k].parameters # UndefinedList
                  /\ Len(ops[k].parameters) = Len(args)
                  /\ \A j \in 1..Len(args) : ops[k].parameters[j].name = args[j].name

\* C16 witness: returned operations of a field with empty parentheses, of a
\* field without parentheses and of a field with two arguments.
C16_Witness ==
    /\ pc = "done"
    /\ \E k \in 1..Len(operations) :
          /\ includes(operations[k].content, "(")
          /\ operations[k].parameters = UndefinedList
    /\ \E k \in 1..Len(operations) :
          /\ ~includes(operations[k].content, "(")
          /\ operations[k].parameters = UndefinedList
    /\ \E k \in 1..Len(operations) :
          /\ operations[k].parameters # UndefinedList
          /\ Len(operations[k].parameters) = 2

\* A description is absent, or a text that is not empty and neither starts
\* nor ends with whitespace.
isAbsentOrTrimmedText(d) ==
    \/ d = Undefined
    \/ /\ d # <<>>
       /\ ~IsWs(d[1])
       /\ ~IsWs(d[Len(d)])

\* C17: the description of every Operation and of every TypeDefinition
\* (the one still open included) is absent or a non-empty text without
\* leading or trailing whitespace.
C17_DescriptionAbsentOrTrimmed ==
    /\ \A k \in 1..Len(ops) : isAbsentOrTrimmedText(ops[k].description)
    /\ \A k \in 1..Len(po.typeOps) : isAbsentOrTrimmedText(po.typeOps[k].description)
    /\ \A k \in 1..Len(typeDefs) : isAbsentOrTrimmedText(typeDefs[k].description)
    /\ tp.currentType # Null => isAbsentOrTrimmedText(tp.currentType.description)

\* C17 witness: the block has returned an Operation with a description and
\* a TypeDefinition with a description.
C17_Witness ==
    /\ pc = "done"
    /\ \E k \in 1..Len(operations) : operations[k].description # Undefined
    /\ \E k \in 1..Len(types) : types[k].description # Undefined

\* C18: in the operation pass, after each line processed from the header of
\* the root block onward, the brace counter equals the number of "{" minus
\* the number of "}" on the header line and the lines processed since.
C18_CounterCountsEveryBrace ==
    (inOpPass /\ po.inTypeBlock /\ at.header > 0) =>
        po.braceCount = depthOver(lines, at.header, i - 1)

\* the lines of ls that are a header of the root type of operations of type t
rootHeaders(ls, t) ==
    {m \in 1..Len(ls) :
        IF t = "query" THEN Facts[ls[m]].queryHeader ELSE Facts[ls[m]].mutationHeader}

\* C19: once the brace depth, counted from the first header of the root
\* type, is back at zero on a line that holds "}", no line below it adds an
\* Operation of that pass (the fields of a second block of the root type
\* included).
C19_OneRootBlockPerPass ==
    \A k \in 1..Len(ops) :
        LET h == Min(rootHeaders(lines, ops[k].type))
        IN  ~\E m \in h..(at.ops[k] - 1) :
                /\ depthOver(lines, h, m) = 0
                /\ includes(lines[m], "}")

\* d is a run of consecutive characters of full
isPartOf(d, full) ==
    \E a \in 1..(Len(full) + 1) : \E b \in 0..Len(full) : SubSeq(full, a, b) = d

\* line m of ls is not blank, no description line, no field declaration and
\* no root header
isUnrelatedLine(ls, m) ==
    /\ ~isBlank(ls[m])
    /\ ~Facts[ls[m]].isDescriptionLine
    /\ ~Facts[ls[m]].field.ok
    /\ ~Facts[ls[m]].queryHeader /\ ~Facts[ls[m]].mutationHeader

\* the texts of the description lines among lines a..b of ls, in order
RECURSIVE descTextsOver(_, _, _)
descTextsOver(ls, a, b) ==
    IF b < a THEN <<>>
    ELSE descTextsOver(ls, a, b - 1)
             \o (IF Facts[ls[b]].isDescriptionLine THEN <<Facts[ls[b]].descText>>
                 ELSE <<>>)

\* C20: when a line that is neither blank, a description line nor a field
\* declaration stands in the root block above a field, the description of
\* that field is made only of description lines below the last such line:
\* the text of a description line above it is no part of it.
C20_UnrelatedLineDiscardsDescription ==
    \A k \in 1..Len(ops) :
        LET j == at.ops[k]
            h == Max({m \in rootHeaders(lines, ops[k].type) : m < j})
            unrelated == {m \in (h + 1)..(j - 1) : isUnrelatedLine(lines, m)}
        IN  (unrelated # {} /\ ops[k].description # Undefined) =>
                isPartOf(ops[k].description,
                         join(descTextsOver(lines, Max(unrelated) + 1, j - 1), <<" ">>))

\* no line of ls strictly between lines a and b is a description line
noDescriptionLineBetween(ls, a, b) ==
    \A m \in (a + 1)..(b - 1) : ~Facts[ls[m]].isDescriptionLine

\* C21: once a field has been emitted the pending description and the
\* buffered description lines are empty, and a field emitted after another
\* one of the same pass with no description line between the two has no
\* description.
C21_DescriptionUsedOnce ==
    /\ (inOpPass /\ at.typeOps # <<>> /\ at.typeOps[Len(at.typeOps)] = i - 1) =>
          (po.currentDescription = <<>> /\ po.descriptionLines = <<>>)
    /\ \A k \in 1..(Len(po.typeOps) - 1) :
          noDescriptionLineBetween(lines, at.typeOps[k], at.typeOps[k + 1]) =>
              po.typeOps[k + 1].description = Undefined
    /\ \A k \in 1..(Len(ops) - 1) :
          (/\ ops[k].type = ops[k + 1].type
           /\ noDescriptionLineBetween(lines, at.ops[k], at.ops[k + 1])) =>
              ops[k + 1].description = Undefined

\* C21 witness: the block has returned a field with a description and, from
\* the line right below it, a field without one.
C21_Witness ==
    /\ pc = "done"
    /\ \E k \in 1..(Len(operations) - 1) :
          /\ operations[k].description # Undefined
          /\ at.ops[k + 1] = at.ops[k] + 1
          /\ operations[k + 1].description = Undefined

\* the first line of the run of description lines that ends right above
\* line j of ls (j itself when line j - 1 is no description line)
RECURSIVE runStart(_, _)
runStart(ls, j) ==
    IF j > 1 /\ Facts[ls[j - 1]].isDescriptionLine THEN runStart(ls, j - 1) ELSE j

\* C22: description lines that stand one after the other directly above a
\* field of the root block give it the description made of their stripped
\* non-empty texts, joined with single spaces in source order; and once the
\* first line after them that is no description line has been processed,
\* the buffer of description lines is empty.
C22_ConsecutiveLinesJoined ==
    /\ \A k \in 1..Len(ops) :
          LET j == at.ops[k]
              h == Max({m \in rootHeaders(lines, ops[k].type) : m < j})
              a == Max({runStart(lines, j), h + 1})
              texts == descTextsOver(lines, a, j - 1)
          IN  (a < j /\ insideBlock(lines, h, a)) =>
                  ops[k].description =
                      join(SelectSeq(texts, LAMBDA t : t # <<>>), <<" ">>)
    /\ (/\ inOpPass /\ po.inTypeBlock /\ at.header > 0 /\ at.header < i - 1
        /\ i - 1 <= Len(lines)
        /\ ~isBlank(lines[i - 1])
        /\ ~Facts[lines[i - 1]].isDescriptionLine) =>
          po.descriptionLines = <<>>

\* the first line of the run of description lines and blank lines that ends
\* right above line j of ls (j itself when there is none)
RECURSIVE gapRunStart(_, _)
gapRunStart(ls, j) ==
    IF j > 1 /\ (Facts[ls[j - 1]].isDescriptionLine \/ isBlank(ls[j - 1]))
    THEN gapRunStart(ls, j - 1)
    ELSE j

\* the description the description lines above header line j of ls make:
\* their texts joined with single spaces, absent when there is none
descriptionAbove(ls, j) ==
    LET texts == descTextsOver(ls, gapRunStart(ls, j), j - 1)
    IN  IF texts = <<>> THEN Undefined ELSE join(texts, <<" ">>)

\* line is a definition that is complete on its own line: a scalar or union
\* declaration, or a header whose braces are balanced
isCompleteDefinitionLine(line) ==
    LET m == Facts[line].header
    IN  /\ Facts[line].keyword /\ m.ok /\ ~isReservedName(m.name)
        /\ \/ m.kind \in {"scalar", "union"}
           \/ includes(line, "{") /\ netBraces(line) = 0

\* what C23 says of the description d of the definition with header line j
isContiguousDescription(ls, j, d) ==
    LET a == gapRunStart(ls, j)
    IN  /\ d # Undefined =>
              (a < j /\ isPartOf(d, join(descTextsOver(ls, a, j - 1), <<" ">>)))
        /\ (a < j /\ (a = 1 \/ isCompleteDefinitionLine(ls[Max({a - 1, 1})]))) =>
              d = descriptionAbove(ls, j)

\* C23: the description of a TypeDefinition is made only of the description
\* lines that stand above its header with no other non-blank line in
\* between: a description line cut off from the header by another non-blank
\* line is not attached; and the description lines directly above the
\* header are attached when they stand at the top of the text or right
\* below a scalar or a one-line definition.
C23_TypeDescriptionContiguous ==
    /\ \A k \in 1..Len(typeDefs) :
          isContiguousDescription(lines, at.typeDefs[k], typeDefs[k].description)
    /\ tp.currentType # Null =>
          isContiguousDescription(lines, at.currentType, tp.currentType.description)

\* the words of a line: its pieces between blanks
wordsOf(line) == SelectSeq(piecesOf(trim(line), " "), LAMBDA w : w # <<>>)

\* the longest run of word characters a text starts with
wordPrefix(w) ==
    SubSeq(w, 1, Min({k \in 1..(Len(w) + 1) : k > Len(w) \/ ~IsWord(w[k])}) - 1)

KeywordNames ==
    {<<"t","y","p","e">>, <<"i","n","t","e","r","f","a","c","e">>, <<"e","n","u","m">>,
     <<"s","c","a","l","a","r">>, <<"u","n","i","o","n">>, <<"i","n","p","u","t">>}

ReservedNames ==
    {<<"Q","u","e","r","y">>, <<"M","u","t","a","t","i","o","n">>,
     <<"S","u","b","s","c","r","i","p","t","i","o","n">>}

\* line is a definition keyword followed by an identifier that is not reserved
isDefinitionHeader(line) ==
    LET ws == wordsOf(line)
    IN  /\ Len(ws) >= 2
        /\ ws[1] \in KeywordNames
        /\ wordPrefix(ws[2]) # <<>>
        /\ wordPrefix(ws[2]) \notin ReservedNames

\* the header lines of the definitions pushed or open so far
headersTaken ==
    at.typeDefs \o (IF pc = "types" /\ tp.currentType # Null
                    THEN <<at.currentType>> ELSE <<>>)

\* C24: in the type-definition pass every definition header read so far
\* has produced exactly one TypeDefinition (pushed, or the one still open),
\* in header order and with the name of its header; the returned list has
\* one entry for every definition header of the text.
C24_OneDefinitionPerHeader ==
    pc \in {"types", "done"} =>
        /\ Len(typeDefs) = Len(at.typeDefs)
        /\ \A a, b \in 1..Len(headersTaken) : a < b => headersTaken[a] < headersTaken[b]
        /\ {headersTaken[k] : k \in 1..Len(headersTaken)}
              = {m \in 1..Min({i - 1, Len(lines)}) : isDefinitionHeader(lines[m])}
        /\ \A k \in 1..Len(typeDefs) :
              typeDefs[k].name = wordPrefix(wordsOf(lines[at.typeDefs[k]])[2])
        /\ pc = "done" => types = typeDefs

\* C24 witness: the block has returned three definitions: one closed by its
\* brace, one closed by the header below it, one by the end of the text.
C24_Witness ==
    /\ pc = "done"
    /\ lines = <<Ln_TypeOpen, Ln_Close, Ln_TypeOpen, Ln_TypeOpen>>
    /\ Len(types) = 3

\* line is a definition keyword followed by one of the reserved names
isReservedHeader(line) ==
    LET ws == wordsOf(line)
    IN  /\ Len(ws) >= 2
        /\ ws[1] \in KeywordNames
        /\ wordPrefix(ws[2]) \in ReservedNames

\* lines a..b of ls without the blank lines and the reserved headers
RECURSIVE absorbedOver(_, _, _)
absorbedOver(ls, a, b) ==
    IF b < a THEN <<>>
    ELSE absorbedOver(ls, a, b - 1)
             \o (IF isBlank(ls[b]) \/ isReservedHeader(ls[b]) THEN <<>> ELSE <<ls[b]>>)

\* the braces a sequence of lines opens and does not close
RECURSIVE netBracesOver(_, _)
netBracesOver(ls, b) ==
    IF b < 1 THEN 0 ELSE netBracesOver(ls, b - 1) + netBraces(ls[b])

\* C25: in the type-definition pass the step over a reserved header met
\* while a definition is open changes nothing but the line index; and the
\* content collected for the open definition is its header and every
\* non-blank line read since except the reserved headers, the lines of the
\* reserved blocks included, with their braces in its brace depth (exactly
\* so when each collected line holds at most one brace).
C25_ReservedBlockAbsorbed ==
    /\ [][(/\ pc = "types" /\ i <= Len(lines)
           /\ tp.currentType # Null
           /\ isReservedHeader(lines[Min({i, Len(lines)})]))
          => (tp' = tp /\ typeDefs' = typeDefs /\ pc' = pc)]_vars
    /\ []((pc = "types" /\ tp.currentType # Null) =>
            LET content == absorbedOver(lines, at.currentType, i - 1)
            IN  /\ tp.typeContent = content
                /\ tp.currentDescription = <<>>
                /\ (\A k \in 1..Len(content) :
                       countChar(content[k], "{") + countChar(content[k], "}") <= 1)
                     => tp.braceCount = netBracesOver(content, Len(content)))

\* C25 witness: the block has returned the definition A whose content holds
\* the field and the closing brace of the Query block that stands inside it.
C25_Witness ==
    /\ pc = "done"
    /\ lines = <<Ln_TypeOpen, Ln_QueryOpen, Ln_FieldFoo, Ln_Close>>
    /\ Len(types) = 1
    /\ types[1].content = join(<<Ln_TypeOpen, Ln_FieldFoo, Ln_Close>>, <<"\n">>)

\* C26: the brace counter of the operation pass and the brace counter of
\* the type-definition pass are never negative.
C26_BraceCountNeverNegative ==
    /\ po.braceCount >= 0
    /\ tp.braceCount >= 0

\* the last source line the k-th pushed definition can have taken
lastLineFor(k) ==
    IF k < Len(at.typeDefs) THEN at.typeDefs[k + 1] - 1
    ELSE IF pc = "types" /\ tp.currentType # Null THEN at.currentType - 1
    ELSE Min({i - 1, Len(lines)})

\* C27: every pushed definition's content is made of source lines that lie
\* between its own header and the next definition's header, in source
\* order, so that no source line is in two contents; and a step of the
\* type-definition pass never changes the content of a definition that was
\* already pushed.
C27_LinesInOneDefinitionInOrder ==
    /\ []((pc \in {"types", "done"}) =>
            /\ Len(at.typeDefs) = Len(typeDefs)
            /\ \A k \in 1..Len(typeDefs) :
                   /\ k > 1 => at.typeDefs[k - 1] < at.typeDefs[k]
                   /\ \E e \in at.typeDefs[k]..lastLineFor(k) :
                          typeDefs[k].content =
                              join(absorbedOver(lines, at.typeDefs[k], e), <<"\n">>))
    /\ [][pc = "types" =>
             /\ Len(typeDefs') >= Len(typeDefs)
             /\ SubSeq(typeDefs', 1, Len(typeDefs)) = typeDefs]_vars

\* C27 witness: two definitions were returned from four lines, two lines each.
C27_Witness ==
    /\ pc = "done"
    /\ lines = <<Ln_TypeOpen, Ln_FieldFoo, Ln_TypeOpen, Ln_Close>>
    /\ Len(types) = 2
    /\ types[1].content = join(<<Ln_TypeOpen, Ln_FieldFoo>>, <<"\n">>)
    /\ types[2].content = join(<<Ln_TypeOpen, Ln_Close>>, <<"\n">>)

\* C28: the flag is cleared only by the timer of the click that set it, and
\* it is null once no write is awaited and every timer has fired.
C28_FlagClearedByOwnTimer ==
    /\ [][(copiedEndpoint # NullText /\ copiedEndpoint' = NullText)
            => (timers # <<>> /\ Head(timers) = copiedBy)]_vars
    /\ []((writes = {} /\ timers = <<>>) => copiedEndpoint = NullText)

\* the keys either toggle is called with
AllKeys == OperationKeys \cup SectionKeys

\* exactly the key k has changed sides between the sets before and after
flipsOnly(before, after, k) ==
    /\ (k \in after) # (k \in before)
    /\ \A j \in AllKeys \ {k} : (j \in after) = (j \in before)

\* C29: toggleOperation(k) and toggleSection(k) flip the membership of k in
\* their own set and of no other key, leave the other set as it is, and
\* undo themselves when applied twice.
C29_ToggleFlipsOneKey ==
    /\ [][/\ (event'.name = "toggleOperation") =>
                 (/\ flipsOnly(expandedOperations, expandedOperations', event'.arg)
                  /\ expandedSections' = expandedSections)
          /\ (event'.name = "toggleSection") =>
                 (/\ flipsOnly(expandedSections, expandedSections', event'.arg)
                  /\ expandedOperations' = expandedOperations)]_vars
    /\ [](\A k \in AllKeys :
             /\ toggle(toggle(expandedOperations, k), k) = expandedOperations
             /\ toggle(toggle(expandedSections, k), k) = expandedSections)

\* C29 witness: an operation was collapsed again while another operation
\* and a section stay expanded.
C29_Witness ==
    /\ event = [name |-> "toggleOperation", arg |-> "query-foo"]
    /\ expandedOperations = {"type-A"}
    /\ expandedSections = {"queries"}

\* C30: an invocation of handleRunOperation calls run exactly once; it calls
\* setOperationName only for a non-empty name, with that name, before run.
C30_RunOnceNameFirst ==
    event.name = "handleRunOperation" =>
        LET runsAt == {n \in DOMAIN calls : calls[n].fn = "run"}
            setsAt == {n \in DOMAIN calls : calls[n].fn = "setOperationName"}
        IN  /\ Cardinality(runsAt) = 1
            /\ \A n \in setsAt :
                   /\ event.arg \notin {NullText, ""}
                   /\ calls[n].arg = event.arg
                   /\ \A r \in runsAt : n < r

\* C30 witness: an invocation without a name came after one with a name, ran
\* once and left the name that was set before.
C30_Witness ==
    /\ event = [name |-> "handleRunOperation", arg |-> ""]
    /\ calls = <<[fn |-> "run", arg |-> ""]>>
    /\ operationName = "GetFoo"

=============================================================================
